---- MODULE Spec2Model ----
(***************************************************************************)
(* Volkswagen Consortium API (src/server.py): the HTTP handlers and the    *)
(* startup seeding, over a model of the document store they call.          *)
(*                                                                         *)
(* A collection is the sequence of its documents in insertion (natural)    *)
(* order; a document's position stands for the store-assigned _id, which   *)
(* no handler reads.  Each handler is one action; `call` records the last  *)
(* request served: its operation, its arguments, the HTTP status code and  *)
(* the response body.                                                      *)
(***************************************************************************)
EXTENDS Integers, Sequences, FiniteSets, TLC

VARIABLES leads, cars, testimonials, blog_posts, page_views, form_interactions,
          uuids, up, call, instances, stats_task

vars == <<leads, cars, testimonials, blog_posts, page_views, form_interactions,
          uuids, up, call, instances, stats_task>>

catalog == <<cars, testimonials, blog_posts>>
analytics == <<page_views, form_interactions>>

\* Coroutines that are suspended at an await: the startup_event of each
\* further service instance on the same database, and a get_lead_stats
\* request between two of its store reads.
inflight == <<instances, stats_task>>

(***************************************************************************)
(* Bounds of the model.                                                    *)
(***************************************************************************)
MaxLeads == 2
MaxTime == 2
MaxUuid == 1
MaxNewCars == 1
MaxNewContent == 1
MaxBulkNew == 2
BulkLeads == 999
BulkSources == 99
BulkCars == 99
MaxInstances == 3
MaxEvents == 2

Times == 1..MaxTime

(***************************************************************************)
(* Program constants.                                                      *)
(***************************************************************************)
LeadsListLimit == 1000
SourcesListLimit == 100
CarsListLimit == 100
TestimonialsListLimit == 100
PostsListLimit == 100
PopularLimit == 5
PopularListLimit == 5

Min(a, b) == IF a <= b THEN a ELSE b

Reverse(s) == [i \in 1..Len(s) |-> s[Len(s) + 1 - i]]

(***************************************************************************)
(* The document store: the motor/pymongo calls the handlers make.          *)
(***************************************************************************)

\* insert_one(doc): the document is appended; the write is acknowledged.
InsertOne(coll, doc) == Append(coll, doc)

\* insert_many(docs)
InsertMany(coll, docs) == coll \o docs

\* Whether a document matches a query filter of field/value pairs; the
\* empty filter {} (written <<>>) matches every document.
Matches(doc, filter) == \A f \in DOMAIN filter : doc[f] = filter[f]

\* find(filter): the matching documents in natural order.
Find(coll, filter) == SelectSeq(coll, LAMBDA d : Matches(d, filter))

\* A mutant of CountDocuments: the filter is dropped, every document counts.
CountDocumentsNoFilter(coll, filter) == Len(coll)

\* count_documents(filter)
CountDocuments(coll, filter) == Len(Find(coll, filter))

\* cursor.to_list(n): at most the first n documents of the cursor.
ToList(cursor, n) == SubSeq(cursor, 1, Min(Len(cursor), n))

\* A mutant of UpdateOne: the update is an upsert, so an id that matches
\* nothing inserts the $set document.
UpdateOneUpsert(coll, id, set) ==
    LET idx == {i \in 1..Len(coll) : coll[i].id = id}
    IN  IF idx = {}
        THEN [docs |-> Append(coll, set), matched_count |-> 0, modified_count |-> 1]
        ELSE LET i == CHOOSE x \in idx : \A y \in idx : x <= y
                 new == [f \in (DOMAIN coll[i]) \cup (DOMAIN set) |->
                            IF f \in DOMAIN set THEN set[f] ELSE coll[i][f]]
             IN  [docs |-> [coll EXCEPT ![i] = new],
                  matched_count |-> 1,
                  modified_count |-> IF new = coll[i] THEN 0 ELSE 1]

\* update_one({"id": id}, {"$set": set}): the first document in natural order
\* whose id matches gets the fields of `set`; modified_count counts it only
\* when that changed the document.
UpdateOne(coll, id, set) ==
    LET idx == {i \in 1..Len(coll) : coll[i].id = id}
    IN  IF idx = {}
        THEN [docs |-> coll, matched_count |-> 0, modified_count |-> 0]
        ELSE LET i == CHOOSE x \in idx : \A y \in idx : x <= y
                 new == [f \in (DOMAIN coll[i]) \cup (DOMAIN set) |->
                            IF f \in DOMAIN set THEN set[f] ELSE coll[i][f]]
             IN  [docs |-> [coll EXCEPT ![i] = new],
                  matched_count |-> 1,
                  modified_count |-> IF new = coll[i] THEN 0 ELSE 1]

\* The store leaves the order of documents with equal sort keys open: the
\* model admits their natural order and the reverse of it.
TieOrders == {"natural", "reverse"}

\* A mutant of SortDesc: the sort direction is ascending.
SortAsc(docs, key, tie) ==
    LET keys == {docs[i][key] : i \in 1..Len(docs)}
        RECURSIVE Go(_)
        Go(K) == IF K = {} THEN <<>>
                 ELSE LET m == CHOOSE x \in K : \A y \in K : x <= y
                          b == SelectSeq(docs, LAMBDA d : d[key] = m)
                      IN  (IF tie = "natural" THEN b ELSE Reverse(b)) \o Go(K \ {m})
    IN  Go(keys)

\* cursor.sort(key, -1): the documents by descending key.
SortDesc(docs, key, tie) ==
    LET keys == {docs[i][key] : i \in 1..Len(docs)}
        RECURSIVE Go(_)
        Go(K) == IF K = {} THEN <<>>
                 ELSE LET m == CHOOSE x \in K : \A y \in K : y <= x
                          b == SelectSeq(docs, LAMBDA d : d[key] = m)
                      IN  (IF tie = "natural" THEN b ELSE Reverse(b)) \o Go(K \ {m})
    IN  Go(keys)

\* aggregate([{"$group": {"_id": "$key", "count": {"$sum": 1}}}]): one group
\* per distinct value of the key, with the number of documents carrying it.
GroupCount(coll, key) ==
    [v \in {coll[i][key] : i \in 1..Len(coll)} |->
        Cardinality({i \in 1..Len(coll) : coll[i][key] = v})]

\* The sets left when k elements are taken out of S.
RECURSIVE DropK(_, _)
DropK(S, k) == IF k = 0 THEN {S} ELSE UNION {DropK(S \ {x}, k - 1) : x \in S}

\* The groups a to_list(n) of an unsorted $group cursor can keep: all of
\* them, or any n of them when there are more ($group emits in no set order).
KeptGroups(S, n) == IF Cardinality(S) <= n THEN {S} ELSE DropK(S, Cardinality(S) - n)

\* A mutant of SortLimit: the groups are taken by ascending count.
RECURSIVE SortLimitAsc(_, _, _)
SortLimitAsc(groups, S, n) ==
    IF S = {} \/ n = 0 THEN {<<>>}
    ELSE LET top == {m \in S : \A o \in S : groups[m] <= groups[o]}
         IN  UNION { { <<[_id |-> m, count |-> groups[m]]>> \o rest :
                         rest \in SortLimitAsc(groups, S \ {m}, n - 1) } : m \in top }

\* The $sort {"count": -1} and $limit n stages after a $group: the lists the
\* pipeline can emit for the groups S, by descending count, groups of equal
\* count in any order, cut after n entries.
RECURSIVE SortLimit(_, _, _)
SortLimit(groups, S, n) ==
    IF S = {} \/ n = 0 THEN {<<>>}
    ELSE LET top == {m \in S : \A o \in S : groups[o] <= groups[m]}
         IN  UNION { { <<[_id |-> m, count |-> groups[m]]>> \o rest :
                         rest \in SortLimit(groups, S \ {m}, n - 1) } : m \in top }

(***************************************************************************)
(* Pydantic models.                                                        *)
(***************************************************************************)

\* str(uuid.uuid4()): the n-th identifier drawn; no two draws are equal.
uuid4(n) == "uuid-" \o ToString(n)

\* LeadCreate(**body).dict(): a body without source gets "hero-form".
LeadCreate(body) ==
    [name |-> body.name, whatsapp |-> body.whatsapp, city |-> body.city,
     model |-> body.model,
     source |-> IF "source" \in DOMAIN body THEN body.source ELSE "hero-form"]

\* A mutant of Lead: the source of the submission is not carried over.
LeadDropsSource(d, uuid, now) ==
    [id |-> uuid, name |-> d.name, whatsapp |-> d.whatsapp, city |-> d.city,
     model |-> d.model, source |-> "hero-form", status |-> "new", created_at |-> now]

\* Lead(**lead_dict): a fresh id, status "new" and the current time.
Lead(d, uuid, now) ==
    [id |-> uuid, name |-> d.name, whatsapp |-> d.whatsapp, city |-> d.city,
     model |-> d.model, source |-> d.source, status |-> "new", created_at |-> now]

\* The value a model gives field f of a body: the body's, or the default.
Field(body, f, default) == IF f \in DOMAIN body THEN body[f] ELSE default

\* A mutant of Car: is_active is not defaulted to True, so a car submitted
\* without it is stored inactive.
CarInactiveDefault(body, uuid) ==
    [id |-> Field(body, "id", uuid), name |-> body.name, model |-> body.model,
     year |-> body.year, image |-> body.image, monthly_price |-> body.monthly_price,
     total_credit |-> body.total_credit, installments |-> body.installments,
     highlights |-> body.highlights, description |-> body.description,
     is_active |-> Field(body, "is_active", FALSE)]

\* Car(**body).dict(): id defaults to a fresh uuid4, is_active to True.
Car(body, uuid) ==
    [id |-> Field(body, "id", uuid), name |-> body.name, model |-> body.model,
     year |-> body.year, image |-> body.image, monthly_price |-> body.monthly_price,
     total_credit |-> body.total_credit, installments |-> body.installments,
     highlights |-> body.highlights, description |-> body.description,
     is_active |-> Field(body, "is_active", TRUE)]

\* Testimonial(**body).dict(): id defaults to a fresh uuid4, is_active to True.
Testimonial(body, uuid) ==
    [id |-> Field(body, "id", uuid), name |-> body.name, city |-> body.city,
     car |-> body.car, image |-> body.image, testimonial |-> body.testimonial,
     rating |-> body.rating, contemplated |-> body.contemplated,
     months_to_contemplate |-> body.months_to_contemplate,
     is_active |-> Field(body, "is_active", TRUE)]

\* BlogPost(**body).dict(): id defaults to a fresh uuid4, content to "",
\* is_published to True.
BlogPost(body, uuid) ==
    [id |-> Field(body, "id", uuid), title |-> body.title, excerpt |-> body.excerpt,
     slug |-> body.slug, category |-> body.category, read_time |-> body.read_time,
     published_at |-> body.published_at, content |-> Field(body, "content", ""),
     is_published |-> Field(body, "is_published", TRUE)]

(***************************************************************************)
(* The seed catalog of populate_initial_data.  Image URLs are cut at the   *)
(* query string and the Portuguese copy is written without accents.        *)
(***************************************************************************)
initial_cars ==
    << [id |-> "golf-gti-2025", name |-> "Golf GTI 2025", model |-> "Golf GTI",
        year |-> 2025,
        image |-> "https://images.unsplash.com/photo-1574581501439-6405a98bd76c",
        monthly_price |-> "R$ 1.247", total_credit |-> "R$ 89.000",
        installments |-> 60,
        highlights |-> <<"Motor 2.0 TSI", "250cv de potencia", "Tracao dianteira">>,
        description |-> "O Golf GTI e a versao esportiva mais desejada do segmento premium.",
        is_active |-> TRUE],
       [id |-> "polo-track-2025", name |-> "Polo Track", model |-> "Polo Track",
        year |-> 2025,
        image |-> "https://images.unsplash.com/photo-1630485074308-ff80bde93658",
        monthly_price |-> "R$ 847", total_credit |-> "R$ 65.000",
        installments |-> 60,
        highlights |-> <<"Motor 1.0 TSI", "Design arrojado", "Tecnologia avancada">>,
        description |-> "O Polo Track combina esportividade e economia para o dia a dia.",
        is_active |-> TRUE],
       [id |-> "t-cross-2025", name |-> "T-Cross", model |-> "T-Cross",
        year |-> 2025,
        image |-> "https://images.unsplash.com/photo-1692377789658-e37e26cc2db7",
        monthly_price |-> "R$ 987", total_credit |-> "R$ 78.000",
        installments |-> 60,
        highlights |-> <<"SUV compacto", "Espaco interno", "Posicao elevada">>,
        description |-> "O T-Cross e o SUV perfeito para quem busca versatilidade e conforto.",
        is_active |-> TRUE],
       [id |-> "nivus-2025", name |-> "Nivus", model |-> "Nivus",
        year |-> 2025,
        image |-> "https://images.unsplash.com/photo-1705229810194-dd78431dcb78",
        monthly_price |-> "R$ 897", total_credit |-> "R$ 72.000",
        installments |-> 60,
        highlights |-> <<"SUV Coupe", "Design unico", "Eficiencia energetica">>,
        description |-> "O Nivus representa a nova era dos SUVs coupe da Volkswagen.",
        is_active |-> TRUE] >>

initial_testimonials ==
    << [id |-> "testimonial-1", name |-> "Maria Silva", city |-> "Belem, PA",
        car |-> "T-Cross 2024",
        image |-> "https://images.unsplash.com/photo-1494790108755-2616c6d58a37",
        testimonial |-> "Achei que era impossivel ter meu carro sem entrada... hoje tenho meu T-Cross sem pagar juros! O Ismael me ajudou em todo o processo.",
        rating |-> 5, contemplated |-> TRUE, months_to_contemplate |-> 8,
        is_active |-> TRUE],
       [id |-> "testimonial-2", name |-> "Joao Santos", city |-> "Ananindeua, PA",
        car |-> "Golf GTI 2024",
        image |-> "https://images.unsplash.com/photo-1472099645785-5658abf4ff4e",
        testimonial |-> "Sempre sonhei com um Golf GTI. Com o consorcio consegui realizar esse sonho sem comprometer minha renda. Recomendo!",
        rating |-> 5, contemplated |-> TRUE, months_to_contemplate |-> 12,
        is_active |-> TRUE],
       [id |-> "testimonial-3", name |-> "Ana Oliveira", city |-> "Castanhal, PA",
        car |-> "Polo Track 2024",
        image |-> "https://images.unsplash.com/photo-1438761681033-6461ffad8d80",
        testimonial |-> "Excelente atendimento! Consegui meu Polo Track em apenas 6 meses. O processo foi super transparente e sem pegadinhas.",
        rating |-> 5, contemplated |-> TRUE, months_to_contemplate |-> 6,
        is_active |-> TRUE] >>

\* published_at is written as the date's digits, year month day.
initial_blog_posts ==
    << [id |-> "blog-1",
        title |-> "5 motivos para escolher consorcio em vez de financiamento",
        excerpt |-> "Descubra por que o consorcio e uma opcao mais inteligente que o financiamento tradicional...",
        slug |-> "consorcio-vs-financiamento", category |-> "Educativo",
        read_time |-> "5 min", published_at |-> 20250115,
        content |-> "Conteudo completo do artigo sobre consorcio vs financiamento...",
        is_published |-> TRUE],
       [id |-> "blog-2",
        title |-> "Como ser contemplado mais rapido no consorcio",
        excerpt |-> "Estrategias comprovadas para aumentar suas chances de contemplacao antecipada...",
        slug |-> "contemplacao-rapida-consorcio", category |-> "Dicas",
        read_time |-> "7 min", published_at |-> 20250112,
        content |-> "Conteudo completo sobre contemplacao rapida...",
        is_published |-> TRUE],
       [id |-> "blog-3",
        title |-> "Diferenca entre carta de credito e financiamento",
        excerpt |-> "Entenda as principais diferencas e qual opcao e melhor para seu perfil...",
        slug |-> "carta-credito-vs-financiamento", category |-> "Comparativo",
        read_time |-> "4 min", published_at |-> 20250110,
        content |-> "Conteudo completo sobre carta de credito vs financiamento...",
        is_published |-> TRUE] >>

(***************************************************************************)
(* Request inputs.                                                         *)
(***************************************************************************)
LeadBodies ==
    { [name |-> "Carlos Eduardo Silva", whatsapp |-> "(91) 99876-5432",
       city |-> "Belem", model |-> "Golf GTI"],
      [name |-> "Ana Oliveira", whatsapp |-> "(91) 98765-4321",
       city |-> "Castanhal", model |-> "Nivus", source |-> "footer-form"] }

StatusValues == {"new", "contacted", "converted", "archived"}

Ids(coll) == {coll[i].id : i \in 1..Len(coll)}

LeadPathIds == Ids(leads) \cup {"no-such-lead"}

CarBodies ==
    { initial_cars[1],
      [name |-> "Virtus", model |-> "Virtus", year |-> 2025,
       image |-> "https://images.unsplash.com/virtus",
       monthly_price |-> "R$ 1.047", total_credit |-> "R$ 82.000",
       installments |-> 72, highlights |-> <<"Sedan", "Motor 1.0 TSI">>,
       description |-> "O Virtus e o seda da familia."] }

CarPathIds == Ids(cars) \cup {"no-such-car"}

TestimonialBodies ==
    { initial_testimonials[1],
      [name |-> "Pedro Lima", city |-> "Maraba, PA", car |-> "Nivus 2025",
       image |-> "https://images.unsplash.com/pedro",
       testimonial |-> "Fui contemplado no terceiro mes.",
       rating |-> 4, contemplated |-> TRUE, months_to_contemplate |-> 3],
      [id |-> "testimonial-1", name |-> "Pedro Lima", city |-> "Maraba, PA",
       car |-> "Nivus 2025", image |-> "https://images.unsplash.com/pedro",
       testimonial |-> "Fui contemplado no terceiro mes.",
       rating |-> 4, contemplated |-> FALSE, months_to_contemplate |-> 0,
       is_active |-> FALSE] }

TestimonialPathIds == Ids(testimonials) \cup {"no-such-testimonial"}

BlogBodies ==
    { initial_blog_posts[1],
      [title |-> "Consorcio para autonomos", excerpt |-> "Como comprovar renda...",
       slug |-> "consorcio-autonomos", category |-> "Dicas", read_time |-> "3 min",
       published_at |-> 20250112],
      [id |-> "blog-1", title |-> "Rascunho", excerpt |-> "Em revisao...",
       slug |-> "contemplacao-rapida-consorcio", category |-> "Dicas",
       read_time |-> "1 min", published_at |-> 20250120, content |-> "...",
       is_published |-> FALSE] }

PostPathIds == Ids(blog_posts) \cup {"no-such-post"}

Slugs == {blog_posts[i].slug : i \in 1..Len(blog_posts)} \cup {"no-such-slug"}

PageViewQueries ==
    { [page |-> "/"],
      [page |-> "/blog", user_agent |-> "Mozilla/5.0", ip |-> "10.0.0.7"] }

FormInteractionQueries ==
    { [form_type |-> "hero-form", action |-> "focus"],
      [form_type |-> "footer-form", action |-> "submit",
       details |-> [model |-> "Nivus"]] }

(***************************************************************************)
(* Initial state: an empty database, the service not yet started.          *)
(***************************************************************************)
NoCall == [op |-> "none", args |-> <<>>, code |-> 0, body |-> <<>>]

\* The service instances that may start on the database.
Instances == 1..MaxInstances

\* No further instance has begun its startup_event.
NoneStarting == [w \in Instances |-> [pc |-> "start"]]

\* No get_lead_stats request is suspended.
NoStats == [pc |-> "idle"]

Init ==
    /\ leads = <<>>
    /\ cars = <<>>
    /\ testimonials = <<>>
    /\ blog_posts = <<>>
    /\ page_views = <<>>
    /\ form_interactions = <<>>
    /\ uuids = 0
    /\ up = FALSE
    /\ call = NoCall
    /\ instances = NoneStarting
    /\ stats_task = NoStats

(***************************************************************************)
(* A database left by earlier runs of the service: the seed catalog and    *)
(* the leads that POST /leads stored, the k-th with the k-th uuid4 drawn.  *)
(* The service is about to start again.                                    *)
(***************************************************************************)
InitAfterLeads(stored) ==
    /\ leads = stored
    /\ cars = initial_cars
    /\ testimonials = initial_testimonials
    /\ blog_posts = initial_blog_posts
    /\ page_views = <<>>
    /\ form_interactions = <<>>
    /\ uuids = Len(stored)
    /\ up = FALSE
    /\ call = NoCall
    /\ instances = NoneStarting
    /\ stats_task = NoStats

\* The time of the k-th earlier submission.
EarlierTime(k) == ((k - 1) % MaxTime) + 1

\* Earlier submissions of the hero and footer forms, every second one each.
FormBody(k) ==
    IF k % 2 = 0
    THEN [name |-> "Ana Oliveira", whatsapp |-> "(91) 98765-4321",
          city |-> "Castanhal", model |-> "Nivus", source |-> "footer-form"]
    ELSE [name |-> "Carlos Eduardo Silva", whatsapp |-> "(91) 99876-5432",
          city |-> "Belem", model |-> "Golf GTI"]

\* Earlier submissions that came from campaign links, each with its own source.
CampaignBody(k) ==
    [name |-> "Carlos Eduardo Silva", whatsapp |-> "(91) 99876-5432",
     city |-> "Belem", model |-> "Golf GTI", source |-> "campaign-" \o ToString(k)]

InitManyLeads ==
    InitAfterLeads([k \in 1..BulkLeads |->
                      Lead(LeadCreate(FormBody(k)), uuid4(k), EarlierTime(k))])

InitManySources ==
    InitAfterLeads([k \in 1..BulkSources |->
                      Lead(LeadCreate(CampaignBody(k)), uuid4(k), EarlierTime(k))])

\* The models of the leads that earlier submissions of the hero form left,
\* in the order they came in.
EarlierModels ==
    <<"Polo Track", "T-Cross", "Polo Track", "Virtus", "T-Cross", "Jetta", "Taos",
      "Polo Track", "Amarok", "Jetta", "T-Cross", "Polo Track", "Virtus">>

ModelBody(k) ==
    [name |-> "Carlos Eduardo Silva", whatsapp |-> "(91) 99876-5432",
     city |-> "Belem", model |-> EarlierModels[k]]

InitManyModels ==
    InitAfterLeads([k \in 1..Len(EarlierModels) |->
                      Lead(LeadCreate(ModelBody(k)), uuid4(k), EarlierTime(k))])

\* A car that POST /cars stored in an earlier run, from a body without id.
StockBody(k) ==
    [name |-> "Virtus " \o ToString(k), model |-> "Virtus", year |-> 2024,
     image |-> "https://images.unsplash.com/virtus",
     monthly_price |-> "R$ 1.047", total_credit |-> "R$ 82.000",
     installments |-> 72, highlights |-> <<"Sedan", "Motor 1.0 TSI">>,
     description |-> "O Virtus e o seda da familia."]

\* A database left by earlier runs: the seed catalog and the cars that
\* POST /cars added, BulkCars cars in all, every one active.
InitManyCars ==
    /\ leads = <<>>
    /\ cars = initial_cars \o [k \in 1..(BulkCars - Len(initial_cars)) |->
                                 Car(StockBody(k), uuid4(k))]
    /\ testimonials = initial_testimonials
    /\ blog_posts = initial_blog_posts
    /\ page_views = <<>>
    /\ form_interactions = <<>>
    /\ uuids = BulkCars - Len(initial_cars)
    /\ up = FALSE
    /\ call = NoCall
    /\ instances = NoneStarting
    /\ stats_task = NoStats

(***************************************************************************)
(* Leads endpoints.                                                        *)
(***************************************************************************)

\* POST /leads
create_lead(body, now) ==
    /\ up
    /\ LET lead_obj == Lead(LeadCreate(body), uuid4(uuids + 1), now)
       IN  /\ leads' = InsertOne(leads, lead_obj)
           /\ call' = [op |-> "create_lead", args |-> <<body>>, code |-> 200,
                       body |-> lead_obj]
    /\ uuids' = uuids + 1
    /\ UNCHANGED <<catalog, analytics, up, inflight>>

\* GET /leads
get_leads(tie) ==
    /\ up
    /\ call' = [op |-> "get_leads", args |-> <<>>, code |-> 200,
                body |-> ToList(SortDesc(leads, "created_at", tie), LeadsListLimit)]
    /\ UNCHANGED <<leads, catalog, analytics, uuids, up, inflight>>

\* The responses GET /leads/stats can give on a collection.
LeadStats(coll) ==
    LET sources == GroupCount(coll, "source")
    IN  { [total |-> CountDocuments(coll, <<>>),
           new |-> CountDocuments(coll, [status |-> "new"]),
           contacted |-> CountDocuments(coll, [status |-> "contacted"]),
           converted |-> CountDocuments(coll, [status |-> "converted"]),
           by_source |-> [s \in K |-> sources[s]]]
          : K \in KeptGroups(DOMAIN sources, SourcesListLimit) }

\* GET /leads/stats
get_lead_stats ==
    /\ up
    /\ \E stats \in LeadStats(leads) :
         call' = [op |-> "get_lead_stats", args |-> <<>>, code |-> 200, body |-> stats]
    /\ UNCHANGED <<leads, catalog, analytics, uuids, up, inflight>>

\* PUT /leads/{lead_id}?status=...
update_lead_status(lead_id, status) ==
    /\ up
    /\ LET result == UpdateOne(leads, lead_id, [status |-> status])
       IN  /\ leads' = result.docs
           /\ call' = [op |-> "update_lead_status", args |-> <<lead_id, status>>,
                       code |-> IF result.modified_count > 0 THEN 200 ELSE 404,
                       body |-> IF result.modified_count > 0
                                THEN "Lead updated successfully" ELSE "Lead not found"]
    /\ UNCHANGED <<catalog, analytics, uuids, up, inflight>>

(***************************************************************************)
(* Cars endpoints.                                                         *)
(***************************************************************************)

\* GET /cars
get_cars ==
    /\ up
    /\ call' = [op |-> "get_cars", args |-> <<>>, code |-> 200,
                body |-> ToList(Find(cars, [is_active |-> TRUE]), CarsListLimit)]
    /\ UNCHANGED <<leads, catalog, analytics, uuids, up, inflight>>

\* POST /cars
create_car(body) ==
    /\ up
    /\ LET car_data == Car(body, uuid4(uuids + 1))
       IN  /\ cars' = InsertOne(cars, car_data)
           /\ call' = [op |-> "create_car", args |-> <<body>>, code |-> 200,
                       body |-> car_data]
    /\ uuids' = IF "id" \in DOMAIN body THEN uuids ELSE uuids + 1
    /\ UNCHANGED <<leads, testimonials, blog_posts, analytics, up, inflight>>

\* PUT /cars/{car_id}
update_car(car_id, body) ==
    /\ up
    /\ LET car_data == Car(body, uuid4(uuids + 1))
           result == UpdateOne(cars, car_id, car_data)
       IN  /\ cars' = result.docs
           /\ call' = [op |-> "update_car", args |-> <<car_id, body>>,
                       code |-> IF result.modified_count > 0 THEN 200 ELSE 404,
                       body |-> IF result.modified_count > 0
                                THEN "Car updated successfully" ELSE "Car not found"]
    /\ uuids' = IF "id" \in DOMAIN body THEN uuids ELSE uuids + 1
    /\ UNCHANGED <<leads, testimonials, blog_posts, analytics, up, inflight>>

\* A mutant of delete_car: the update is an update_many whose filter matches
\* every car.
delete_every_car(car_id) ==
    /\ up
    /\ cars' = [i \in 1..Len(cars) |-> [cars[i] EXCEPT !.is_active = FALSE]]
    /\ call' = [op |-> "delete_car", args |-> <<car_id>>,
                code |-> IF car_id \in Ids(cars) THEN 200 ELSE 404,
                body |-> IF car_id \in Ids(cars)
                         THEN "Car deleted successfully" ELSE "Car not found"]
    /\ UNCHANGED <<leads, testimonials, blog_posts, analytics, uuids, up, inflight>>

\* A mutant of delete_car: the car document is removed from the collection.
hard_delete_car(car_id) ==
    /\ up
    /\ cars' = SelectSeq(cars, LAMBDA d : d.id # car_id)
    /\ call' = [op |-> "delete_car", args |-> <<car_id>>,
                code |-> IF car_id \in Ids(cars) THEN 200 ELSE 404,
                body |-> IF car_id \in Ids(cars)
                         THEN "Car deleted successfully" ELSE "Car not found"]
    /\ UNCHANGED <<leads, testimonials, blog_posts, analytics, uuids, up, inflight>>

\* DELETE /cars/{car_id}
delete_car(car_id) ==
    /\ up
    /\ LET result == UpdateOne(cars, car_id, [is_active |-> FALSE])
       IN  /\ cars' = result.docs
           /\ call' = [op |-> "delete_car", args |-> <<car_id>>,
                       code |-> IF result.modified_count > 0 THEN 200 ELSE 404,
                       body |-> IF result.modified_count > 0
                                THEN "Car deleted successfully" ELSE "Car not found"]
    /\ UNCHANGED <<leads, testimonials, blog_posts, analytics, uuids, up, inflight>>

(***************************************************************************)
(* Testimonials endpoints.                                                 *)
(***************************************************************************)

\* GET /testimonials
get_testimonials ==
    /\ up
    /\ call' = [op |-> "get_testimonials", args |-> <<>>, code |-> 200,
                body |-> ToList(Find(testimonials, [is_active |-> TRUE]),
                                TestimonialsListLimit)]
    /\ UNCHANGED <<leads, catalog, analytics, uuids, up, inflight>>

\* POST /testimonials
create_testimonial(body) ==
    /\ up
    /\ LET testimonial_data == Testimonial(body, uuid4(uuids + 1))
       IN  /\ testimonials' = InsertOne(testimonials, testimonial_data)
           /\ call' = [op |-> "create_testimonial", args |-> <<body>>, code |-> 200,
                       body |-> testimonial_data]
    /\ uuids' = IF "id" \in DOMAIN body THEN uuids ELSE uuids + 1
    /\ UNCHANGED <<leads, cars, blog_posts, analytics, up, inflight>>

\* PUT /testimonials/{testimonial_id}
update_testimonial(testimonial_id, body) ==
    /\ up
    /\ LET testimonial_data == Testimonial(body, uuid4(uuids + 1))
           result == UpdateOne(testimonials, testimonial_id, testimonial_data)
       IN  /\ testimonials' = result.docs
           /\ call' = [op |-> "update_testimonial", args |-> <<testimonial_id, body>>,
                       code |-> IF result.modified_count > 0 THEN 200 ELSE 404,
                       body |-> IF result.modified_count > 0
                                THEN "Testimonial updated successfully"
                                ELSE "Testimonial not found"]
    /\ uuids' = IF "id" \in DOMAIN body THEN uuids ELSE uuids + 1
    /\ UNCHANGED <<leads, cars, blog_posts, analytics, up, inflight>>

(***************************************************************************)
(* Blog endpoints.                                                         *)
(***************************************************************************)

\* GET /blog/posts
get_blog_posts(tie) ==
    /\ up
    /\ call' = [op |-> "get_blog_posts", args |-> <<>>, code |-> 200,
                body |-> ToList(SortDesc(Find(blog_posts, [is_published |-> TRUE]),
                                         "published_at", tie),
                                PostsListLimit)]
    /\ UNCHANGED <<leads, catalog, analytics, uuids, up, inflight>>

\* GET /blog/posts/{slug}
get_blog_post_by_slug(slug) ==
    /\ up
    /\ LET found == Find(blog_posts, [slug |-> slug, is_published |-> TRUE])
       IN  call' = IF Len(found) > 0
                   THEN [op |-> "get_blog_post_by_slug", args |-> <<slug>>,
                         code |-> 200, body |-> found[1]]
                   ELSE [op |-> "get_blog_post_by_slug", args |-> <<slug>>,
                         code |-> 404, body |-> "Post not found"]
    /\ UNCHANGED <<leads, catalog, analytics, uuids, up, inflight>>

\* POST /blog/posts
create_blog_post(body) ==
    /\ up
    /\ LET post_data == BlogPost(body, uuid4(uuids + 1))
       IN  /\ blog_posts' = InsertOne(blog_posts, post_data)
           /\ call' = [op |-> "create_blog_post", args |-> <<body>>, code |-> 200,
                       body |-> post_data]
    /\ uuids' = IF "id" \in DOMAIN body THEN uuids ELSE uuids + 1
    /\ UNCHANGED <<leads, cars, testimonials, analytics, up, inflight>>

\* A mutant of update_blog_post: $set carries only the fields the request
\* sent (post_data.dict(exclude_unset=True)), so the others keep their value.
update_blog_post_partial(post_id, body) ==
    /\ up
    /\ LET result == UpdateOne(blog_posts, post_id, body)
       IN  /\ blog_posts' = result.docs
           /\ call' = [op |-> "update_blog_post", args |-> <<post_id, body>>,
                       code |-> IF result.modified_count > 0 THEN 200 ELSE 404,
                       body |-> IF result.modified_count > 0
                                THEN "Blog post updated successfully"
                                ELSE "Blog post not found"]
    /\ uuids' = IF "id" \in DOMAIN body THEN uuids ELSE uuids + 1
    /\ UNCHANGED <<leads, cars, testimonials, analytics, up, inflight>>

\* PUT /blog/posts/{post_id}
update_blog_post(post_id, body) ==
    /\ up
    /\ LET post_data == BlogPost(body, uuid4(uuids + 1))
           result == UpdateOne(blog_posts, post_id, post_data)
       IN  /\ blog_posts' = result.docs
           /\ call' = [op |-> "update_blog_post", args |-> <<post_id, body>>,
                       code |-> IF result.modified_count > 0 THEN 200 ELSE 404,
                       body |-> IF result.modified_count > 0
                                THEN "Blog post updated successfully"
                                ELSE "Blog post not found"]
    /\ uuids' = IF "id" \in DOMAIN body THEN uuids ELSE uuids + 1
    /\ UNCHANGED <<leads, cars, testimonials, analytics, up, inflight>>

(***************************************************************************)
(* Analytics endpoints.                                                    *)
(***************************************************************************)

\* POST /analytics/page-view?page=...&user_agent=...&ip=...
log_page_view(query, now) ==
    /\ up
    /\ LET view_data == [id |-> uuid4(uuids + 1), page |-> query.page,
                         user_agent |-> Field(query, "user_agent", ""),
                         ip |-> Field(query, "ip", ""), timestamp |-> now]
       IN  page_views' = InsertOne(page_views, view_data)
    /\ call' = [op |-> "log_page_view", args |-> <<query>>, code |-> 200,
                body |-> "Page view logged"]
    /\ uuids' = uuids + 1
    /\ UNCHANGED <<leads, catalog, form_interactions, up, inflight>>

\* A mutant of log_form_interaction: the event is written to page_views.
log_form_interaction_as_view(query, now) ==
    /\ up
    /\ LET interaction_data == [id |-> uuid4(uuids + 1), form_type |-> query.form_type,
                                action |-> query.action,
                                details |-> Field(query, "details", <<>>),
                                timestamp |-> now]
       IN  page_views' = InsertOne(page_views, interaction_data)
    /\ call' = [op |-> "log_form_interaction", args |-> <<query>>, code |-> 200,
                body |-> "Form interaction logged"]
    /\ uuids' = uuids + 1
    /\ UNCHANGED <<leads, catalog, form_interactions, up, inflight>>

\* POST /analytics/form-interaction?form_type=...&action=... with details as body
log_form_interaction(query, now) ==
    /\ up
    /\ LET interaction_data == [id |-> uuid4(uuids + 1), form_type |-> query.form_type,
                                action |-> query.action,
                                details |-> Field(query, "details", <<>>),
                                timestamp |-> now]
       IN  form_interactions' = InsertOne(form_interactions, interaction_data)
    /\ call' = [op |-> "log_form_interaction", args |-> <<query>>, code |-> 200,
                body |-> "Form interaction logged"]
    /\ uuids' = uuids + 1
    /\ UNCHANGED <<leads, catalog, page_views, up, inflight>>

\* The popular_cars lists the dashboard pipeline can give on a collection.
PopularCars(coll) ==
    LET groups == GroupCount(coll, "model")
    IN  { ToList(cursor, PopularListLimit) :
            cursor \in SortLimit(groups, DOMAIN groups, PopularLimit) }

\* GET /analytics/dashboard
get_analytics_dashboard ==
    /\ up
    /\ \E popular_cars \in PopularCars(leads) :
         call' = [op |-> "get_analytics_dashboard", args |-> <<>>, code |-> 200,
                  body |-> [total_leads |-> CountDocuments(leads, <<>>),
                            total_page_views |-> CountDocuments(page_views, <<>>),
                            total_form_interactions |->
                                CountDocuments(form_interactions, <<>>),
                            popular_cars |-> popular_cars]]
    /\ UNCHANGED <<leads, catalog, analytics, uuids, up, inflight>>

(***************************************************************************)
(* Startup.                                                                *)
(***************************************************************************)

\* A mutant of populate_initial_data: the first seed car is inserted twice.
populate_twice(done) ==
    [cars |-> IF done >= 1 THEN InsertMany(InsertMany(cars, initial_cars),
                                           <<initial_cars[1]>>)
              ELSE cars,
     testimonials |-> IF done >= 2 THEN InsertMany(testimonials, initial_testimonials)
                      ELSE testimonials,
     blog_posts |-> IF done >= 3 THEN InsertMany(blog_posts, initial_blog_posts)
                    ELSE blog_posts]

\* populate_initial_data, as far as its first `done` insert_many calls: the
\* cars, then the testimonials, then the blog posts.
populate_initial_data(done) ==
    [cars |-> IF done >= 1 THEN InsertMany(cars, initial_cars) ELSE cars,
     testimonials |-> IF done >= 2 THEN InsertMany(testimonials, initial_testimonials)
                      ELSE testimonials,
     blog_posts |-> IF done >= 3 THEN InsertMany(blog_posts, initial_blog_posts)
                    ELSE blog_posts]

\* A mutant of NeedsSeeding: the emptiness check looks at active cars only.
NeedsSeedingActiveOnly == CountDocuments(cars, [is_active |-> TRUE]) = 0

\* startup_event's check: cars_count == 0.
NeedsSeeding == CountDocuments(cars, <<>>) = 0

\* The service starts (or restarts): startup_event runs to its end.
startup_event ==
    /\ IF NeedsSeeding
       THEN LET seeded == populate_initial_data(3)
            IN  /\ cars' = seeded.cars
                /\ testimonials' = seeded.testimonials
                /\ blog_posts' = seeded.blog_posts
                /\ call' = [op |-> "startup_event", args |-> <<>>, code |-> 0,
                            body |-> "populated"]
       ELSE /\ UNCHANGED catalog
            /\ call' = [op |-> "startup_event", args |-> <<>>, code |-> 0,
                        body |-> "skipped"]
    /\ up' = TRUE
    /\ UNCHANGED <<leads, analytics, uuids, inflight>>

\* The service starts on an empty car collection and the store raises in
\* populate_initial_data after `done` of its insert_many calls: the exception
\* leaves startup_event and the service does not come up.
startup_raises(done) ==
    /\ NeedsSeeding
    /\ LET seeded == populate_initial_data(done)
       IN  /\ cars' = seeded.cars
           /\ testimonials' = seeded.testimonials
           /\ blog_posts' = seeded.blog_posts
    /\ call' = [op |-> "startup_event", args |-> <<done>>, code |-> 0, body |-> "raised"]
    /\ up' = FALSE
    /\ UNCHANGED <<leads, analytics, uuids, inflight>>

(***************************************************************************)
(* Startup of several service instances on one database.  Each await of    *)
(* startup_event and populate_initial_data is a step of its own, so the    *)
(* store calls of different instances interleave.                          *)
(***************************************************************************)

\* cars_count = await db.cars.count_documents({})
startup_count(w) ==
    /\ instances[w].pc = "start"
    /\ instances' = [instances EXCEPT
                       ![w] = [pc |-> "counted",
                               cars_count |-> CountDocuments(cars, <<>>)]]
    /\ UNCHANGED <<leads, catalog, analytics, uuids, up, call, stats_task>>

\* if cars_count == 0 is false: startup_event returns.
startup_skip(w) ==
    /\ instances[w].pc = "counted"
    /\ instances[w].cars_count # 0
    /\ instances' = [instances EXCEPT ![w] = [pc |-> "done"]]
    /\ up' = TRUE
    /\ call' = [op |-> "startup_event", args |-> <<w>>, code |-> 0, body |-> "skipped"]
    /\ UNCHANGED <<leads, catalog, analytics, uuids, stats_task>>

\* if cars_count == 0: await db.cars.insert_many(initial_cars)
populate_cars(w) ==
    /\ instances[w].pc = "counted"
    /\ instances[w].cars_count = 0
    /\ cars' = InsertMany(cars, initial_cars)
    /\ instances' = [instances EXCEPT ![w] = [pc |-> "cars"]]
    /\ UNCHANGED <<leads, testimonials, blog_posts, analytics, uuids, up, call,
                   stats_task>>

\* await db.testimonials.insert_many(initial_testimonials)
populate_testimonials(w) ==
    /\ instances[w].pc = "cars"
    /\ testimonials' = InsertMany(testimonials, initial_testimonials)
    /\ instances' = [instances EXCEPT ![w] = [pc |-> "testimonials"]]
    /\ UNCHANGED <<leads, cars, blog_posts, analytics, uuids, up, call, stats_task>>

\* await db.blog_posts.insert_many(initial_blog_posts), and startup_event
\* returns.
populate_blog_posts(w) ==
    /\ instances[w].pc = "testimonials"
    /\ blog_posts' = InsertMany(blog_posts, initial_blog_posts)
    /\ instances' = [instances EXCEPT ![w] = [pc |-> "done"]]
    /\ up' = TRUE
    /\ call' = [op |-> "startup_event", args |-> <<w>>, code |-> 0, body |-> "populated"]
    /\ UNCHANGED <<leads, cars, testimonials, analytics, uuids, stats_task>>

(***************************************************************************)
(* GET /leads/stats await by await: the handler is suspended at each of    *)
(* its five store reads, and other requests are served in between.         *)
(***************************************************************************)

\* total_leads = await db.leads.count_documents({})
stats_count_total ==
    /\ up
    /\ stats_task.pc = "idle"
    /\ stats_task' = [pc |-> "total", total_leads |-> CountDocuments(leads, <<>>)]
    /\ UNCHANGED <<leads, catalog, analytics, uuids, up, call, instances>>

\* new_leads = await db.leads.count_documents({"status": "new"})
stats_count_new ==
    /\ stats_task.pc = "total"
    /\ stats_task' = [pc |-> "new", total_leads |-> stats_task.total_leads,
                      new_leads |-> CountDocuments(leads, [status |-> "new"])]
    /\ UNCHANGED <<leads, catalog, analytics, uuids, up, call, instances>>

\* contacted_leads = await db.leads.count_documents({"status": "contacted"})
stats_count_contacted ==
    /\ stats_task.pc = "new"
    /\ stats_task' = [pc |-> "contacted", total_leads |-> stats_task.total_leads,
                      new_leads |-> stats_task.new_leads,
                      contacted_leads |->
                          CountDocuments(leads, [status |-> "contacted"])]
    /\ UNCHANGED <<leads, catalog, analytics, uuids, up, call, instances>>

\* converted_leads = await db.leads.count_documents({"status": "converted"})
stats_count_converted ==
    /\ stats_task.pc = "contacted"
    /\ stats_task' = [pc |-> "converted", total_leads |-> stats_task.total_leads,
                      new_leads |-> stats_task.new_leads,
                      contacted_leads |-> stats_task.contacted_leads,
                      converted_leads |->
                          CountDocuments(leads, [status |-> "converted"])]
    /\ UNCHANGED <<leads, catalog, analytics, uuids, up, call, instances>>

\* sources = await db.leads.aggregate(pipeline).to_list(100), and the
\* handler returns.
stats_aggregate ==
    /\ stats_task.pc = "converted"
    /\ LET sources == GroupCount(leads, "source")
       IN  \E K \in KeptGroups(DOMAIN sources, SourcesListLimit) :
             call' = [op |-> "get_lead_stats", args |-> <<>>, code |-> 200,
                      body |-> [total |-> stats_task.total_leads,
                                new |-> stats_task.new_leads,
                                contacted |-> stats_task.contacted_leads,
                                converted |-> stats_task.converted_leads,
                                by_source |-> [s \in K |-> sources[s]]]]
    /\ stats_task' = NoStats
    /\ UNCHANGED <<leads, catalog, analytics, uuids, up, instances>>

(***************************************************************************)
(* Specifications.  The bounds of the model are stated here, on the        *)
(* requests drawn, and not in the handlers.                                *)
(***************************************************************************)

\* A request body that carries no id makes the model draw a uuid4.
DrawsUuid(body) == "id" \notin DOMAIN body

\* The lead endpoints of a service started on an empty database.
NextLeads ==
    \/ startup_event
    \/ /\ Len(leads) < MaxLeads
       /\ \E body \in LeadBodies, now \in Times : create_lead(body, now)
    \/ \E tie \in TieOrders : get_leads(tie)
    \/ get_lead_stats
    \/ \E lead_id \in LeadPathIds, status \in StatusValues :
         update_lead_status(lead_id, status)

SpecLeads == Init /\ [][NextLeads]_vars

\* Startup and the car endpoints, the store never failing.
NextCars ==
    \/ startup_event
    \/ get_cars
    \/ /\ Len(cars) < Len(initial_cars) + MaxNewCars
       /\ \E body \in CarBodies :
            (DrawsUuid(body) => uuids < MaxUuid) /\ create_car(body)
    \/ \E car_id \in CarPathIds, body \in CarBodies :
         (DrawsUuid(body) => uuids < MaxUuid) /\ update_car(car_id, body)
    \/ \E car_id \in CarPathIds : delete_car(car_id)

SpecCars == Init /\ [][NextCars]_vars

\* Startup on a store that may fail while the seed catalog is inserted, with
\* the requests that change the car collection between two starts.
NextStartup ==
    \/ startup_event
    \/ \E done \in 0..2 : startup_raises(done)
    \/ get_cars
    \/ /\ Len(cars) < Len(initial_cars) + MaxNewCars
       /\ \E body \in CarBodies :
            (DrawsUuid(body) => uuids < MaxUuid) /\ create_car(body)
    \/ \E car_id \in CarPathIds : delete_car(car_id)

SpecStartup == Init /\ [][NextStartup]_vars

\* Startup and the testimonial endpoints, the store never failing.
NextTestimonials ==
    \/ startup_event
    \/ get_testimonials
    \/ /\ Len(testimonials) < Len(initial_testimonials) + MaxNewContent
       /\ \E body \in TestimonialBodies :
            (DrawsUuid(body) => uuids < MaxUuid) /\ create_testimonial(body)
    \/ \E testimonial_id \in TestimonialPathIds, body \in TestimonialBodies :
         (DrawsUuid(body) => uuids < MaxUuid) /\ update_testimonial(testimonial_id, body)

SpecTestimonials == Init /\ [][NextTestimonials]_vars

\* Startup and the blog endpoints, the store never failing.
NextBlog ==
    \/ startup_event
    \/ \E tie \in TieOrders : get_blog_posts(tie)
    \/ \E slug \in Slugs : get_blog_post_by_slug(slug)
    \/ /\ Len(blog_posts) < Len(initial_blog_posts) + MaxNewContent
       /\ \E body \in BlogBodies :
            (DrawsUuid(body) => uuids < MaxUuid) /\ create_blog_post(body)
    \/ \E post_id \in PostPathIds, body \in BlogBodies :
         (DrawsUuid(body) => uuids < MaxUuid) /\ update_blog_post(post_id, body)

SpecBlog == Init /\ [][NextBlog]_vars

\* The id of the lead stored last, and an id no lead has.
LastLeadIds == {leads[i].id : i \in {Len(leads)} \ {0}} \cup {"no-such-lead"}

\* The lead endpoints on a database that already holds BulkLeads leads.
NextManyLeads ==
    \/ startup_event
    \/ /\ Len(leads) < BulkLeads + MaxBulkNew
       /\ \E body \in LeadBodies, now \in Times : create_lead(body, now)
    \/ \E tie \in TieOrders : get_leads(tie)
    \/ \E lead_id \in LastLeadIds : update_lead_status(lead_id, "contacted")

SpecManyLeads == InitManyLeads /\ [][NextManyLeads]_vars

\* The lead endpoints on a database whose leads carry BulkSources sources.
NextManySources ==
    \/ startup_event
    \/ /\ Len(leads) < BulkSources + MaxBulkNew
       /\ \E body \in LeadBodies, now \in Times : create_lead(body, now)
    \/ get_lead_stats
    \/ \E lead_id \in LastLeadIds : update_lead_status(lead_id, "contacted")

SpecManySources == InitManySources /\ [][NextManySources]_vars

\* The ids of the first and the last car stored, and an id no car has.
EndCarIds == {cars[i].id : i \in {1, Len(cars)} \ {0}} \cup {"no-such-car"}

\* The car endpoints on a database that already holds BulkCars cars.
NextManyCars ==
    \/ startup_event
    \/ get_cars
    \/ /\ Len(cars) < BulkCars + MaxBulkNew
       /\ \E body \in CarBodies : create_car(body)
    \/ \E car_id \in EndCarIds : delete_car(car_id)

SpecManyCars == InitManyCars /\ [][NextManyCars]_vars

\* A GET /leads/stats in flight while leads are created and updated.
NextStatsRace ==
    \/ startup_event
    \/ /\ Len(leads) < MaxLeads
       /\ \E body \in LeadBodies, now \in Times : create_lead(body, now)
    \/ \E lead_id \in LastLeadIds : update_lead_status(lead_id, "contacted")
    \/ stats_count_total
    \/ stats_count_new
    \/ stats_count_contacted
    \/ stats_count_converted
    \/ stats_aggregate

SpecStatsRace == Init /\ [][NextStatsRace]_vars

\* Up to MaxInstances service instances start on one empty database.
NextInstances ==
    \/ \E w \in Instances : startup_count(w)
    \/ \E w \in Instances : startup_skip(w)
    \/ \E w \in Instances : populate_cars(w)
    \/ \E w \in Instances : populate_testimonials(w)
    \/ \E w \in Instances : populate_blog_posts(w)

SpecInstances == Init /\ [][NextInstances]_vars

\* The analytics endpoints of a service started on an empty database.
NextAnalytics ==
    \/ startup_event
    \/ /\ Len(page_views) + Len(form_interactions) < MaxEvents
       /\ \E query \in PageViewQueries, now \in Times : log_page_view(query, now)
    \/ /\ Len(page_views) + Len(form_interactions) < MaxEvents
       /\ \E query \in FormInteractionQueries, now \in Times :
            log_form_interaction(query, now)
    \/ get_analytics_dashboard

SpecAnalytics == Init /\ [][NextAnalytics]_vars

\* The dashboard of a service whose database holds the leads of earlier
\* runs, for more models than the dashboard lists; leads, page views and
\* form interactions come in, MaxEvents of them in all.
NextDashboard ==
    \/ startup_event
    \/ /\ uuids < Len(EarlierModels) + MaxEvents
       /\ \E body \in LeadBodies, now \in Times : create_lead(body, now)
    \/ /\ uuids < Len(EarlierModels) + MaxEvents
       /\ \E query \in PageViewQueries, now \in Times : log_page_view(query, now)
    \/ /\ uuids < Len(EarlierModels) + MaxEvents
       /\ \E query \in FormInteractionQueries, now \in Times :
            log_form_interaction(query, now)
    \/ get_analytics_dashboard

SpecDashboard == InitManyModels /\ [][NextDashboard]_vars

\* A section of the site nobody has written to since the database was
\* created: it is empty, or holds what the seeding put there.
LeadsIdle == leads = <<>>
CarsIdle == cars \in {<<>>, initial_cars}
TestimonialsIdle == testimonials \in {<<>>, initial_testimonials}
BlogIdle == blog_posts \in {<<>>, initial_blog_posts}
AnalyticsIdle == page_views = <<>> /\ form_interactions = <<>>

\* A section takes requests while the other sections are idle; the leads
\* section, moreover, while every uuid4 drawn so far went to a lead.
LeadsTurn ==
    CarsIdle /\ TestimonialsIdle /\ BlogIdle /\ AnalyticsIdle /\ uuids = Len(leads)
CarsTurn == LeadsIdle /\ TestimonialsIdle /\ BlogIdle /\ AnalyticsIdle
TestimonialsTurn == LeadsIdle /\ CarsIdle /\ BlogIdle /\ AnalyticsIdle
BlogTurn == LeadsIdle /\ CarsIdle /\ TestimonialsIdle /\ AnalyticsIdle
AnalyticsTurn == LeadsIdle /\ CarsIdle /\ TestimonialsIdle /\ BlogIdle

\* Every endpoint of the service, the store never failing.  The requests of
\* one run go to one section of the site, and leads and events are stamped
\* with one time.
NextService ==
    \/ startup_event
    \/ /\ LeadsTurn /\ Len(leads) < MaxLeads
       /\ \E body \in LeadBodies : create_lead(body, MaxTime)
    \/ LeadsTurn /\ \E tie \in TieOrders : get_leads(tie)
    \/ LeadsTurn /\ get_lead_stats
    \/ /\ LeadsTurn
       /\ \E lead_id \in LeadPathIds, status \in StatusValues :
            update_lead_status(lead_id, status)
    \/ CarsTurn /\ get_cars
    \/ /\ CarsTurn /\ Len(cars) < Len(initial_cars) + MaxNewCars
       /\ \E body \in CarBodies :
            (DrawsUuid(body) => uuids < MaxUuid) /\ create_car(body)
    \/ /\ CarsTurn
       /\ \E car_id \in CarPathIds, body \in CarBodies :
            (DrawsUuid(body) => uuids < MaxUuid) /\ update_car(car_id, body)
    \/ CarsTurn /\ \E car_id \in CarPathIds : delete_car(car_id)
    \/ TestimonialsTurn /\ get_testimonials
    \/ /\ TestimonialsTurn
       /\ Len(testimonials) < Len(initial_testimonials) + MaxNewContent
       /\ \E body \in TestimonialBodies :
            (DrawsUuid(body) => uuids < MaxUuid) /\ create_testimonial(body)
    \/ /\ TestimonialsTurn
       /\ \E testimonial_id \in TestimonialPathIds, body \in TestimonialBodies :
            (DrawsUuid(body) => uuids < MaxUuid) /\ update_testimonial(testimonial_id, body)
    \/ BlogTurn /\ \E tie \in TieOrders : get_blog_posts(tie)
    \/ BlogTurn /\ \E slug \in Slugs : get_blog_post_by_slug(slug)
    \/ /\ BlogTurn /\ Len(blog_posts) < Len(initial_blog_posts) + MaxNewContent
       /\ \E body \in BlogBodies :
            (DrawsUuid(body) => uuids < MaxUuid) /\ create_blog_post(body)
    \/ /\ BlogTurn
       /\ \E post_id \in PostPathIds, body \in BlogBodies :
            (DrawsUuid(body) => uuids < MaxUuid) /\ update_blog_post(post_id, body)
    \/ /\ AnalyticsTurn /\ Len(page_views) + Len(form_interactions) < MaxEvents
       /\ \E query \in PageViewQueries : log_page_view(query, MaxTime)
    \/ /\ AnalyticsTurn /\ Len(page_views) + Len(form_interactions) < MaxEvents
       /\ \E query \in FormInteractionQueries : log_form_interaction(query, MaxTime)
    \/ AnalyticsTurn /\ get_analytics_dashboard

SpecService == Init /\ [][NextService]_vars

(***************************************************************************)
(* Properties.                                                             *)
(***************************************************************************)

\* The status values GET /leads/stats counts.
CountedStatuses == {"new", "contacted", "converted"}

\* The sum of the values of a function with a finite domain.
RECURSIVE SumOf(_)
SumOf(f) ==
    IF DOMAIN f = {} THEN 0
    ELSE LET x == CHOOSE y \in DOMAIN f : TRUE
         IN  f[x] + SumOf([y \in DOMAIN f \ {x} |-> f[y]])

\* Whether no two documents of a collection carry the same id.
UniqueIds(coll) ==
    \A i, j \in 1..Len(coll) : coll[i].id = coll[j].id => i = j

\* C1, as claimed: the total GET /leads/stats returns is the sum of the
\* new, contacted and converted counts it returns.
C1_TotalIsSumOfStatusCounts ==
    call.op = "get_lead_stats" =>
        call.body.total = call.body.new + call.body.contacted + call.body.converted

\* C1, amended: the total GET /leads/stats returns is the sum of the new,
\* contacted and converted counts it returns plus the number of stored leads
\* whose status is none of these three.
C1_TotalIsSumPlusOtherStatuses ==
    call.op = "get_lead_stats" =>
        call.body.total =
            call.body.new + call.body.contacted + call.body.converted
            + Cardinality({i \in 1..Len(leads) : leads[i].status \notin CountedStatuses})

\* C1, witness: statistics were returned for two leads, one converted and
\* one with a status outside new/contacted/converted.
C1_Witness ==
    /\ call.op = "get_lead_stats"
    /\ Len(leads) = 2
    /\ \E i \in 1..Len(leads) : leads[i].status = "converted"
    /\ \E i \in 1..Len(leads) : leads[i].status \notin CountedStatuses

\* C2: GET /leads/stats returns a by_source mapping that lists every source
\* value of the stored leads with the number of leads carrying it, and the
\* by_source counts sum to the total.
C2_BySourceCountsEveryLead ==
    call.op = "get_lead_stats" =>
        /\ DOMAIN call.body.by_source = {leads[i].source : i \in 1..Len(leads)}
        /\ \A s \in DOMAIN call.body.by_source :
             call.body.by_source[s] =
                 Cardinality({i \in 1..Len(leads) : leads[i].source = s})
        /\ SumOf(call.body.by_source) = call.body.total

\* C3: update_status on the id of a stored lead returns success for every
\* status string, and the lead then carries that status.
C3_UpdateStatusOfStoredLeadSucceeds ==
    (call.op = "update_lead_status" /\ call.args[1] \in Ids(leads)) =>
        /\ call.code = 200
        /\ \A i \in 1..Len(leads) :
             leads[i].id = call.args[1] => leads[i].status = call.args[2]

\* C4: an update or a soft delete of a car answers not-found only when no
\* stored car has the id of the request (a not-found leaves the collection
\* as it was, so the ids are those the request met).
C4_NotFoundOnlyForMissingId ==
    (call.op \in {"update_car", "delete_car"} /\ call.code = 404) =>
        call.args[1] \notin Ids(cars)

\* C5: no two documents of one collection have the same id.
C5_IdsUniquePerCollection ==
    /\ UniqueIds(leads)
    /\ UniqueIds(cars)
    /\ UniqueIds(testimonials)
    /\ UniqueIds(blog_posts)

\* C6: a startup that finds at least one car document, active or not,
\* leaves cars, testimonials and blog posts (and the leads) as they are.
C6_StartupOnNonEmptyCarsChangesNothing ==
    [][ (Len(cars) > 0 /\ call'.op = "startup_event") =>
            /\ call'.body = "skipped"
            /\ cars' = cars
            /\ testimonials' = testimonials
            /\ blog_posts' = blog_posts
            /\ leads' = leads ]_vars

\* C6, witness: a startup skipped seeding on a car collection that holds an
\* inactive car while testimonials and blog posts are empty.
C6_Witness ==
    /\ call.op = "startup_event"
    /\ call.body = "skipped"
    /\ \E i \in 1..Len(cars) : ~cars[i].is_active
    /\ testimonials = <<>>
    /\ blog_posts = <<>>

\* C7: a startup that runs to its end on an empty car collection inserts
\* exactly 4 cars, 3 testimonials and 3 blog posts, and a GET /cars right
\* after it returns exactly the models Golf GTI, Polo Track, T-Cross and
\* Nivus, one car each, all active.
C7_StartupSeedsEmptyStore ==
    [][ /\ (Len(cars) = 0 /\ call'.op = "startup_event" /\ call'.body # "raised") =>
            /\ call'.body = "populated"
            /\ Len(cars') = Len(cars) + 4
            /\ Len(testimonials') = Len(testimonials) + 3
            /\ Len(blog_posts') = Len(blog_posts) + 3
        /\ (call.op = "startup_event" /\ call.body = "populated"
                /\ call'.op = "get_cars") =>
            /\ call'.code = 200
            /\ Len(call'.body) = 4
            /\ {call'.body[i].model : i \in 1..Len(call'.body)} =
                   {"Golf GTI", "Polo Track", "T-Cross", "Nivus"}
            /\ \A i \in 1..Len(call'.body) : call'.body[i].is_active ]_vars

\* C7, witness: GET /cars answered on the catalog as the seeding left it.
C7_Witness ==
    /\ call.op = "get_cars"
    /\ Len(call.body) = 4
    /\ cars = initial_cars
    /\ testimonials = initial_testimonials
    /\ blog_posts = initial_blog_posts

\* C8: GET /leads returns one record per stored lead (every lead was stored
\* by a create-lead, and none is ever removed), by non-increasing created_at.
C8_GetLeadsReturnsEveryLead ==
    call.op = "get_leads" =>
        /\ Len(call.body) = Len(leads)
        /\ {call.body[i].id : i \in 1..Len(call.body)} = Ids(leads)
        /\ \A i \in 1..(Len(call.body) - 1) :
             call.body[i].created_at >= call.body[i + 1].created_at

\* C9: a create-lead returns and stores a record with the submitted name,
\* whatsapp, city, model and source ("hero-form" when the body has none),
\* status "new", and an id no stored lead had.
C9_CreateLeadEchoesAndIsFresh ==
    [][ call'.op = "create_lead" =>
            LET sent == call'.args[1]
                got == call'.body
            IN  /\ call'.code = 200
                /\ got.name = sent.name
                /\ got.whatsapp = sent.whatsapp
                /\ got.city = sent.city
                /\ got.model = sent.model
                /\ got.source = IF "source" \in DOMAIN sent THEN sent.source
                                ELSE "hero-form"
                /\ got.status = "new"
                /\ got.id \notin Ids(leads)
                /\ leads' = Append(leads, got) ]_vars

\* C9, witness: a second lead was created, from a body that names a source
\* other than the default.
C9_Witness ==
    /\ call.op = "create_lead"
    /\ Len(leads) = 2
    /\ "source" \in DOMAIN call.args[1]
    /\ call.body.source # "hero-form"
    /\ leads[Len(leads)] = call.body

\* C10: an update or a soft delete of a car whose id no stored car has
\* answers not-found and leaves the car collection as it was.
C10_MissingCarIdChangesNothing ==
    [][ (call'.op \in {"update_car", "delete_car"} /\ call'.args[1] \notin Ids(cars)) =>
            /\ call'.code = 404
            /\ cars' = cars ]_vars

\* C10, witness: an update of a car id that is not in the seeded collection
\* was answered not-found.
C10_Witness ==
    /\ call.op = "update_car"
    /\ call.code = 404
    /\ call.args[1] \notin Ids(cars)
    /\ Len(cars) >= 4

\* C11: no operation removes a document: in every step the number of
\* documents of each collection (leads, cars, testimonials, blog posts, page
\* views, form interactions) stays or grows.
C11_CollectionsNeverShrink ==
    [][ /\ Len(leads') >= Len(leads)
        /\ Len(cars') >= Len(cars)
        /\ Len(testimonials') >= Len(testimonials)
        /\ Len(blog_posts') >= Len(blog_posts)
        /\ Len(page_views') >= Len(page_views)
        /\ Len(form_interactions') >= Len(form_interactions) ]_vars

\* C11, witness: a DELETE /cars/{id} succeeded and the collection still
\* holds every car, the deleted one inactive.
C11_Witness ==
    /\ call.op = "delete_car"
    /\ call.code = 200
    /\ Len(cars) = Len(initial_cars)
    /\ \E i \in 1..Len(cars) : cars[i].id = call.args[1] /\ ~cars[i].is_active

\* Whether a response lists exactly the documents of a collection that
\* carry a true flag: each of them once, and nothing else.
ListsExactly(body, coll, flag) ==
    /\ Len(body) = Cardinality({i \in 1..Len(coll) : coll[i][flag]})
    /\ \A i \in 1..Len(coll) : coll[i][flag] => \E j \in 1..Len(body) : body[j] = coll[i]
    /\ \A j \in 1..Len(body) :
         body[j][flag] /\ \E i \in 1..Len(coll) : coll[i] = body[j]

\* C12: GET /cars returns exactly the stored cars with is_active true,
\* GET /testimonials exactly the stored testimonials with is_active true,
\* GET /blog/posts exactly the stored posts with is_published true by
\* non-increasing published_at, and GET /blog/posts/{slug} a published post
\* with that slug, or not-found when no published post has it.
C12_ListingsShowExactlyTheVisible ==
    /\ call.op = "get_cars" => ListsExactly(call.body, cars, "is_active")
    /\ call.op = "get_testimonials" =>
           ListsExactly(call.body, testimonials, "is_active")
    /\ call.op = "get_blog_posts" =>
           /\ ListsExactly(call.body, blog_posts, "is_published")
           /\ \A j \in 1..(Len(call.body) - 1) :
                call.body[j].published_at >= call.body[j + 1].published_at
    /\ call.op = "get_blog_post_by_slug" =>
           LET published == {i \in 1..Len(blog_posts) :
                               /\ blog_posts[i].slug = call.args[1]
                               /\ blog_posts[i].is_published}
           IN  IF published = {}
               THEN call.code = 404
               ELSE /\ call.code = 200
                    /\ \E i \in published : call.body = blog_posts[i]

\* C13: a successful DELETE /cars/{id} sets is_active to false on one car
\* with that id and changes no other field, no other car and no other
\* collection; GET /cars lists no inactive car; and an inactive car becomes
\* active again only by a successful update.
C13_SoftDeleteFlipsOnlyTheFlag ==
    [][ /\ (call'.op = "delete_car" /\ call'.code = 200) =>
            /\ \E i \in 1..Len(cars) :
                 /\ cars[i].id = call'.args[1]
                 /\ cars[i].is_active
                 /\ cars' = [cars EXCEPT ![i].is_active = FALSE]
            /\ leads' = leads
            /\ testimonials' = testimonials
            /\ blog_posts' = blog_posts
            /\ page_views' = page_views
            /\ form_interactions' = form_interactions
        /\ call'.op = "get_cars" =>
            \A i \in 1..Len(cars') :
                ~cars'[i].is_active =>
                    \A j \in 1..Len(call'.body) : call'.body[j] # cars'[i]
        /\ \A i \in 1..Len(cars) :
             (~cars[i].is_active /\ cars'[i].is_active) =>
                 (call'.op = "update_car" /\ call'.code = 200) ]_vars

\* C13, witness: GET /cars answered after a soft delete, with fewer cars
\* than are stored.
C13_Witness ==
    /\ call.op = "get_cars"
    /\ \E i \in 1..Len(cars) : ~cars[i].is_active
    /\ Len(call.body) < Len(cars)
    /\ Len(call.body) > 0

\* What a catalog model gives a field the request payload leaves out.
PayloadDefaults == [is_active |-> TRUE, is_published |-> TRUE, content |-> ""]

\* Whether after is before with the first document of the given id
\* carrying the payload and every other document as it was: each field the
\* payload has equals the payload's, each field it leaves out has the
\* model's default (the id, a newly generated one).
ReplacedByPayload(before, after, id, payload) ==
    /\ Len(after) = Len(before)
    /\ \E i \in 1..Len(before) :
         /\ before[i].id = id
         /\ \A k \in 1..(i - 1) : before[k].id # id
         /\ \A f \in DOMAIN payload : after[i][f] = payload[f]
         /\ \A f \in (DOMAIN after[i]) \ (DOMAIN payload) :
              IF f = "id" THEN after[i].id \notin Ids(before)
              ELSE after[i][f] = PayloadDefaults[f]
         /\ DOMAIN after[i] = DOMAIN before[i]
         /\ \A k \in (1..Len(before)) \ {i} : after[k] = before[k]

\* C14: after a successful update of a car, a testimonial or a blog post
\* every field of the matched document equals the payload's (no field keeps
\* its previous value) and no other document is changed.
C14_UpdateReplacesEveryField ==
    [][ /\ (call'.op = "update_car" /\ call'.code = 200) =>
            /\ ReplacedByPayload(cars, cars', call'.args[1], call'.args[2])
            /\ testimonials' = testimonials /\ blog_posts' = blog_posts
        /\ (call'.op = "update_testimonial" /\ call'.code = 200) =>
            /\ ReplacedByPayload(testimonials, testimonials',
                                 call'.args[1], call'.args[2])
            /\ cars' = cars /\ blog_posts' = blog_posts
        /\ (call'.op = "update_blog_post" /\ call'.code = 200) =>
            /\ ReplacedByPayload(blog_posts, blog_posts',
                                 call'.args[1], call'.args[2])
            /\ cars' = cars /\ testimonials' = testimonials ]_vars

\* C14, witness: a blog post that had content was updated by a payload
\* without content, and is stored with empty content.
C14_Witness ==
    /\ call.op = "update_blog_post"
    /\ call.code = 200
    /\ "content" \notin DOMAIN call.args[2]
    /\ \E i \in 1..Len(blog_posts) :
         blog_posts[i].title = call.args[2].title /\ blog_posts[i].content = ""

\* The number of leads of a collection that ask for a model.
LeadsOfModel(coll, m) == Cardinality({i \in 1..Len(coll) : coll[i].model = m})

\* C15: each successful create-lead, log_page_view and log_form_interaction
\* adds one document to its collection and nothing else does, and GET
\* /analytics/dashboard returns the three collection sizes and a
\* popular_cars list of at most 5 entries by non-increasing count, each
\* count the number of stored leads of that model, no model left out having
\* strictly more leads than a listed one.
C15_DashboardCountsCallsAndRanksModels ==
    [][ /\ Len(leads') = Len(leads) + (IF call'.op = "create_lead" THEN 1 ELSE 0)
        /\ Len(page_views') =
               Len(page_views) + (IF call'.op = "log_page_view" THEN 1 ELSE 0)
        /\ Len(form_interactions') =
               Len(form_interactions)
               + (IF call'.op = "log_form_interaction" THEN 1 ELSE 0)
        /\ call'.op \in {"create_lead", "log_page_view", "log_form_interaction"} =>
               call'.code = 200
        /\ call'.op = "get_analytics_dashboard" =>
               LET popular_cars == call'.body.popular_cars
                   listed == {popular_cars[j]._id : j \in 1..Len(popular_cars)}
                   models == {leads'[i].model : i \in 1..Len(leads')}
               IN  /\ call'.body.total_leads = Len(leads')
                   /\ call'.body.total_page_views = Len(page_views')
                   /\ call'.body.total_form_interactions = Len(form_interactions')
                   /\ Len(popular_cars) <= 5
                   /\ \A j \in 1..Len(popular_cars) :
                        popular_cars[j].count = LeadsOfModel(leads', popular_cars[j]._id)
                   /\ \A j \in 1..(Len(popular_cars) - 1) :
                        popular_cars[j].count >= popular_cars[j + 1].count
                   /\ \A m \in models \ listed : \A j \in 1..Len(popular_cars) :
                        LeadsOfModel(leads', m) <= popular_cars[j].count ]_vars

\* C15, witness: the dashboard answered with five models out of more, after
\* a page view and a form interaction were logged.
C15_Witness ==
    /\ call.op = "get_analytics_dashboard"
    /\ Len(call.body.popular_cars) = 5
    /\ Cardinality({leads[i].model : i \in 1..Len(leads)}) > 5
    /\ call.body.total_page_views = 1
    /\ call.body.total_form_interactions = 1

\* C16: when two instances have run their startup on a database that was
\* empty, in whatever order their store calls came, the seed catalog is
\* there once: 4 cars, 3 testimonials and 3 blog posts.
C16_ConcurrentStartupsSeedOnce ==
    (/\ Cardinality({w \in Instances : instances[w].pc = "done"}) = 2
     /\ \A w \in Instances : instances[w].pc \in {"start", "done"}) =>
        /\ Len(cars) = 4
        /\ Len(testimonials) = 3
        /\ Len(blog_posts) = 3

\* C17: the total a GET /leads/stats returns equals the sum of the
\* by_source counts it returns, also when leads are inserted between the
\* store reads of the handler.
C17_StatsSnapshotConsistent ==
    call.op = "get_lead_stats" => SumOf(call.body.by_source) = call.body.total

\* Whether the document an update of the given id matched (the first with
\* that id) has that id afterwards too.
KeepsId(before, after, id) ==
    \E i \in 1..Len(before) :
        /\ before[i].id = id
        /\ \A k \in 1..(i - 1) : before[k].id # id
        /\ after[i].id = id

\* C18: a successful PUT of a car, a testimonial or a blog post leaves the
\* id of the matched document equal to the path id, whatever the payload.
C18_UpdateKeepsId ==
    [][ /\ (call'.op = "update_car" /\ call'.code = 200) =>
            KeepsId(cars, cars', call'.args[1])
        /\ (call'.op = "update_testimonial" /\ call'.code = 200) =>
            KeepsId(testimonials, testimonials', call'.args[1])
        /\ (call'.op = "update_blog_post" /\ call'.code = 200) =>
            KeepsId(blog_posts, blog_posts', call'.args[1]) ]_vars

====
